---------------------------- MODULE Spec2Model ----------------------------
(***************************************************************************)
(* A model of lampshade's per-stream send buffer, receive buffer and       *)
(* dialer (src/sendbuffer.go, src/dialer.go).                              *)
(*                                                                         *)
(* Goroutines are processes with a program counter; every blocking         *)
(* channel, lock or timer operation is a step of its own, and what a       *)
(* goroutine does between two blocking operations is part of one step.     *)
(* A Go select with several ready cases is a nondeterministic choice.      *)
(***************************************************************************)
EXTENDS Integers, Sequences, FiniteSets, TLC

(***************************************************************************)
(* Bounds of the model.                                                    *)
(***************************************************************************)
\* the windowSize a send buffer is studied with on its own
SendWindow == 1
\* the windowSize a whole stream is studied with
StreamWindow == 2
\* capacity of the session's writer channel `out`
OutCap == 1
\* number of goroutines calling sendBuffer.close (one call each)
NumClosers == 2
\* capacity of the session's channel of outbound ACK frames
AckCap == 1
\* longest destination handed to read, in bytes
MaxDest == 2
\* calls of send and close in one run of a whole stream
StreamCalls == 3
\* calls of send and close in one run checked for progress
FairCalls == 3
\* goroutines calling dial
NumDialers == 2
\* dial calls in one run
MaxDials == 5
\* largest maxStreamsPerConn handed to StreamDialer
MaxStreamsPerConn == 2
\* windowSize of a receive buffer on its own: its ackInterval is 2
RecvWindow == 11
\* data frames the peer sends to a receive buffer on its own
MaxFrames == 4
\* largest count of one peer ACK, and the most credit the peer ever adds
MaxAck == 1

\* calls of send and close in one run: enough to fill the window, the frame
\* the loop holds and the in-queue, for one send more that must block, and
\* for one close
MaxCalls == 2 * SendWindow + 3

Closers == 1..NumClosers
Dialers == 1..NumDialers
Deadlines == {"zero", "past", "future"}

(***************************************************************************)
(* Frames.  A frame type and a 3-byte stream id make the 4-byte header.    *)
(***************************************************************************)
frameTypeData == 0
frameTypeACK == 1
frameTypeRST == 2
frameHeaderSize == 4
defaultHeader == <<frameTypeData, 0, 0, 7>>

withFrameType(header, t) == [header EXCEPT ![1] = t]

\* what sendLoop hands to write(): append(frame, buf.defaultHeader...)
dataFrame(payload) == payload \o defaultHeader

IsRST(f) == Len(f) = frameHeaderSize /\ f[1] = frameTypeRST
IsData(f) == Len(f) > frameHeaderSize /\ f[Len(f) - frameHeaderSize + 1] = frameTypeData
framePayload(f) == SubSeq(f, 1, Len(f) - frameHeaderSize)

\* The frame as the peer's session hands it to submit: the 4-byte header,
\* the 2-byte big-endian data length, the data.
dataHeaderSize == 6
receivedFrame(f) ==
    LET data == framePayload(f)
    IN  SubSeq(f, Len(f) - frameHeaderSize + 1, Len(f))
          \o <<Len(data) \div 256, Len(data) % 256>> \o data

\* int16(n)
toInt16(n) == ((n + 32768) % 65536) - 32768
\* the ACK frame of a stream: its header with the ACK type, then the count
ackWithFrames(header, n) == withFrameType(header, frameTypeACK) \o <<n>>
ackCount(f) == f[Len(f)]

Min(a, b) == IF a < b THEN a ELSE b

\* The payload of the k-th send call.  The code never
\* looks into a payload, so the calls differ only in what makes bytes
\* traceable: every byte of every call is distinct, and one- and two-byte
\* payloads alternate.
Payload(k) == [i \in 1..(1 + (k % 2)) |-> k * 10 + i]

(***************************************************************************)
(* window: a signed credit; sub deducts at once and its handle is ready    *)
(* while the credit is not negative.                                       *)
(***************************************************************************)
newWindow(size) == size
windowSub(c, n) == c - n
windowAdd(c, n) == c + n
windowAvailable(c) == c >= 0

VARIABLES
    windowSize,      \* the windowSize newSendBuffer and newReceiveBuffer get
    \* sendBuffer
    sbIn,            \* buf.in: queued payloads
    sbInClosed,      \* close(buf.in) has happened
    closeRequested,  \* buf.closeRequested: a channel of capacity 1
    closing,         \* buf.closing
    muReaders,       \* holders of buf.muClosing.RLock
    closedDone,      \* buf.closed.Done() has been called
    wtArmed,         \* buf.writeTimer: "large", "deadline" or "no"
    wtC,             \* buf.writeTimer.C holds a value
    credit,          \* buf.window
    \* sendLoop
    lpc, lFrame, sendRST,
    gpc,             \* the goroutine signalClose starts
    closeTimedOut,   \* close(closeTimedOut) has happened
    out,             \* the session's writer channel
    \* the goroutine calling send
    spc, sArg, sRet, sStartClosing,
    \* goroutines calling close
    cpc,
    closeArgs,       \* the sendRST arguments of the close calls made so far
    \* history
    accepted,        \* payloads enqueued by send, in order
    wrote,           \* frames sendLoop put on out, in order
    ackTotal,        \* credit added by peer ACKs
    callsLeft,       \* calls of send and close the run may still make
    nSends,          \* send calls made
    panicked,        \* a send on the closed channel buf.in
    dropped,         \* payloads write() gave up on after the close timeout
    \* receiveBuffer
    rbIn,            \* buf.in: queued frames
    rbClosed,        \* buf.closed, and close(buf.in) has happened
    rbCurrent,       \* buf.current
    unacked,         \* buf.unacked
    ackCh,           \* buf.ack: the session's channel of outbound ACK frames
    \* the session's reader, inside submit
    rdrpc, rdrFrame,
    \* the goroutine calling read
    rdpc, rdB, rdDl, rdGot, rdErr,
    delivered,       \* bytes returned by the reads so far, in order
    submitted,       \* data bytes submit has put on the in-queue, in order
    ackEmitted,      \* the sum of the counts of the ACK frames read has pushed
    framesRead,      \* frames whose every data byte read has copied out
    \* dialer
    maxStreamPerConn, \* d.maxStreamPerConn
    dCurrent,        \* d.current: a session, or NoSession
    dId,             \* d.id
    dMx,             \* d.mx is locked
    dpc, dLocal,     \* the goroutines calling dial, and their current and id
    nSessions,       \* sessions started so far: session k is the k-th
    closedSessions,  \* sessions whose close callback has run
    staleClosed,     \* those of them that were not current at the callback
    dialsLeft,       \* dial calls the run may still make
    minted,          \* <<session, id>> in the order dial took the ids
    handed           \* <<session, id>> in the order of getOrCreateStream

sbVars == <<windowSize, sbIn, sbInClosed, closeRequested, closing, muReaders, closedDone,
            wtArmed, wtC, credit>>
loopVars == <<lpc, lFrame, sendRST, gpc, closeTimedOut, out>>
sendVars == <<spc, sArg, sRet, sStartClosing>>
closeVars == <<cpc, closeArgs>>
histVars == <<accepted, wrote, ackTotal, callsLeft, nSends, panicked, dropped>>
rbVars == <<rbIn, rbClosed, rbCurrent, unacked, ackCh>>
rdrVars == <<rdrpc, rdrFrame>>
readVars == <<rdpc, rdB, rdDl, rdGot, rdErr, delivered>>
recvHist == <<submitted, ackEmitted, framesRead>>
recvVars == <<rbVars, rdrVars, readVars, recvHist>>
dialVars == <<maxStreamPerConn, dCurrent, dId, dMx, dpc, dLocal, nSessions,
              closedSessions, staleClosed, dialsLeft, minted, handed>>
streamVars == <<sbVars, loopVars, sendVars, closeVars, histVars, recvVars>>

vars == <<streamVars, dialVars>>

NoArg == [b |-> <<>>, dl |-> "zero"]
NoRet == [n |-> 0, err |-> "none"]

\* newSendBuffer
InitSend ==
    /\ windowSize \in {SendWindow, StreamWindow, RecvWindow}
    /\ sbIn = <<>>
    /\ sbInClosed = FALSE
    /\ closeRequested = <<>>
    /\ closing = FALSE
    /\ muReaders = 0
    /\ closedDone = FALSE
    /\ wtArmed = "large"
    /\ wtC = FALSE
    /\ credit = newWindow(windowSize)
    /\ lpc = "select"
    /\ lFrame = <<>>
    /\ sendRST = FALSE
    /\ gpc = "none"
    /\ closeTimedOut = FALSE
    /\ out = <<>>
    /\ spc = "idle"
    /\ sArg = NoArg
    /\ sRet = NoRet
    /\ sStartClosing = FALSE
    /\ cpc = [c \in Closers |-> "idle"]
    /\ closeArgs = {}
    /\ accepted = <<>>
    /\ wrote = <<>>
    /\ ackTotal = 0
    /\ nSends = 0
    /\ panicked = FALSE
    /\ dropped = {}

\* newReceiveBuffer
InitRecv ==
    /\ rbIn = <<>>
    /\ rbClosed = FALSE
    /\ rbCurrent = <<>>
    /\ unacked = 0
    /\ ackCh = <<>>
    /\ rdrpc = "idle"
    /\ rdrFrame = <<>>
    /\ rdpc = "idle"
    /\ rdB = 0
    /\ rdDl = "zero"
    /\ rdGot = <<>>
    /\ rdErr = "nil"
    /\ delivered = <<>>
    /\ submitted = <<>>
    /\ ackEmitted = 0
    /\ framesRead = 0

(***************************************************************************)
(* sendBuffer.send, called by one goroutine, one call after another.       *)
(***************************************************************************)
\* the caller enters send and is about to take muClosing.RLock (line 121)
SendCall(dl) ==
    /\ spc = "idle"
    /\ callsLeft > 0
    /\ callsLeft' = callsLeft - 1
    /\ nSends' = nSends + 1
    /\ spc' = "rlock"
    /\ sArg' = [b |-> Payload(nSends + 1), dl |-> dl]
    /\ sRet' = NoRet
    /\ sStartClosing' = closing
    /\ UNCHANGED <<sbVars, loopVars, closeVars, accepted, wrote, ackTotal, panicked, dropped, recvVars, dialVars>>

\* RWMutex.RLock: blocked while a writer holds or awaits the lock
CanRLock == gpc # "lock"

\* lines 121, 128-141: RLock, then doSend up to its first blocking operation
SendRLock ==
    /\ spc = "rlock"
    /\ CanRLock
    /\ muReaders' = muReaders + 1
    /\ IF closing
         THEN spc' = "ret" /\ sRet' = [n |-> 0, err |-> "EPIPE"]
         ELSE IF sArg.dl = "zero"
           THEN spc' = "enqueue" /\ sRet' = sRet
           ELSE IF sArg.dl = "past"
             THEN spc' = "ret" /\ sRet' = [n |-> 0, err |-> "ErrTimeout"]
             ELSE spc' = "stop" /\ sRet' = sRet
    /\ UNCHANGED <<windowSize, sbIn, sbInClosed, closeRequested, closing, closedDone,
                   wtArmed, wtC, credit, loopVars, sArg, sStartClosing,
                   closeVars, histVars, recvVars, dialVars>>

\* buf.in <- b on a channel without capacity limit
Enqueue_Unbounded(next) ==
    IF sbInClosed
      THEN /\ panicked' = TRUE
           /\ spc' = "panic"
           /\ UNCHANGED <<sbIn, accepted, sRet>>
      ELSE /\ sbIn' = Append(sbIn, sArg.b)
           /\ accepted' = Append(accepted, sArg.b)
           /\ sRet' = [n |-> Len(sArg.b), err |-> "nil"]
           /\ spc' = next
           /\ UNCHANGED panicked

\* buf.in <- b: a send on a closed channel panics
Enqueue(next) ==
    IF sbInClosed
      THEN /\ panicked' = TRUE
           /\ spc' = "panic"
           /\ UNCHANGED <<sbIn, accepted, sRet>>
      ELSE /\ Len(sbIn) < windowSize
           /\ sbIn' = Append(sbIn, sArg.b)
           /\ accepted' = Append(accepted, sArg.b)
           /\ sRet' = [n |-> Len(sArg.b), err |-> "nil"]
           /\ spc' = next
           /\ UNCHANGED panicked

\* lines 134-135: no deadline
SendEnqueue ==
    /\ spc = "enqueue"
    /\ Enqueue("ret")
    /\ UNCHANGED <<windowSize, sbInClosed, closeRequested, closing, muReaders, closedDone,
                   wtArmed, wtC, credit, loopVars, sArg, sStartClosing,
                   closeVars, wrote, ackTotal, callsLeft, nSends, dropped, recvVars, dialVars>>

\* line 142: buf.writeTimer.Stop() reports whether it stopped a running timer
SendTimerStop ==
    /\ spc = "stop"
    /\ IF wtArmed # "no"
         THEN wtArmed' = "no" /\ spc' = "reset"
         ELSE wtArmed' = wtArmed /\ spc' = "drain"
    /\ UNCHANGED <<windowSize, sbIn, sbInClosed, closeRequested, closing, muReaders,
                   closedDone, wtC, credit, loopVars, sArg, sRet,
                   sStartClosing, closeVars, histVars, recvVars, dialVars>>

\* line 143: <-buf.writeTimer.C
SendTimerDrain ==
    /\ spc = "drain"
    /\ wtC
    /\ wtC' = FALSE
    /\ spc' = "reset"
    /\ UNCHANGED <<windowSize, sbIn, sbInClosed, closeRequested, closing, muReaders,
                   closedDone, wtArmed, credit, loopVars, sArg, sRet,
                   sStartClosing, closeVars, histVars, recvVars, dialVars>>

\* line 145: buf.writeTimer.Reset(writeDeadline.Sub(now))
SendTimerReset ==
    /\ spc = "reset"
    /\ wtArmed' = "deadline"
    /\ spc' = "select"
    /\ UNCHANGED <<windowSize, sbIn, sbInClosed, closeRequested, closing, muReaders,
                   closedDone, wtC, credit, loopVars, sArg, sRet,
                   sStartClosing, closeVars, histVars, recvVars, dialVars>>

\* lines 146-148: select, case buf.in <- b
SendSelectEnqueue ==
    /\ spc = "select"
    /\ Enqueue("ret")
    /\ UNCHANGED <<windowSize, sbInClosed, closeRequested, closing, muReaders, closedDone,
                   wtArmed, wtC, credit, loopVars, sArg, sStartClosing,
                   closeVars, wrote, ackTotal, callsLeft, nSends, dropped, recvVars, dialVars>>

\* lines 149-150: select, case <-buf.writeTimer.C
SendSelectTimeout ==
    /\ spc = "select"
    /\ wtC
    /\ wtC' = FALSE
    /\ sRet' = [n |-> 0, err |-> "ErrTimeout"]
    /\ spc' = "ret"
    /\ UNCHANGED <<windowSize, sbIn, sbInClosed, closeRequested, closing, muReaders,
                   closedDone, wtArmed, credit, loopVars, sArg,
                   sStartClosing, closeVars, histVars, recvVars, dialVars>>

\* lines 123-124: RUnlock and return
SendReturn ==
    /\ spc = "ret"
    /\ muReaders' = muReaders - 1
    /\ spc' = "idle"
    /\ sArg' = NoArg
    /\ sRet' = NoRet
    /\ sStartClosing' = FALSE
    /\ UNCHANGED <<windowSize, sbIn, sbInClosed, closeRequested, closing, closedDone,
                   wtArmed, wtC, credit, loopVars, closeVars, histVars, recvVars, dialVars>>

\* the write timer armed by Reset expires: the runtime puts the time on its
\* channel (capacity 1).  The timer newSendBuffer arms with largeTimeout
\* does not expire within a run.
WriteTimerFire ==
    /\ wtArmed = "deadline"
    /\ wtArmed' = "no"
    /\ wtC' = TRUE
    /\ UNCHANGED <<windowSize, sbIn, sbInClosed, closeRequested, closing, muReaders,
                   closedDone, credit, loopVars, sendVars, closeVars, histVars, recvVars, dialVars>>

Send ==
    \/ \E dl \in Deadlines : SendCall(dl)
    \/ SendRLock
    \/ SendEnqueue
    \/ SendTimerStop
    \/ SendTimerDrain
    \/ SendTimerReset
    \/ SendSelectEnqueue
    \/ SendSelectTimeout
    \/ SendReturn

(***************************************************************************)
(* sendBuffer.sendLoop                                                     *)
(***************************************************************************)
\* signalClose (lines 71-82): closeOnce starts the closing goroutine once
signalClose == IF gpc = "none" THEN "spawned" ELSE gpc

\* line 86 with a frame, lines 87-88: buf.window.sub(1)
LoopRecvFrame ==
    /\ lpc = "select"
    /\ sbIn # <<>>
    /\ lFrame' = Head(sbIn)
    /\ sbIn' = Tail(sbIn)
    /\ credit' = windowSub(credit, 1)
    /\ lpc' = "window"
    /\ UNCHANGED <<windowSize, sbInClosed, closeRequested, closing, muReaders, closedDone,
                   wtArmed, wtC, sendRST, gpc, closeTimedOut, out,
                   sendVars, closeVars, histVars, recvVars, dialVars>>

\* line 86 on the closed and drained in-queue, lines 106-108: return
LoopRecvClosed ==
    /\ lpc = "select"
    /\ sbIn = <<>>
    /\ sbInClosed
    /\ lpc' = "defer"
    /\ UNCHANGED <<sbVars, lFrame, sendRST, gpc, closeTimedOut, out,
                   sendVars, closeVars, histVars, recvVars, dialVars>>

\* lines 110-111
LoopCloseRequested ==
    /\ lpc = "select"
    /\ closeRequested # <<>>
    /\ sendRST' = Head(closeRequested)
    /\ closeRequested' = Tail(closeRequested)
    /\ gpc' = signalClose
    /\ UNCHANGED <<windowSize, sbIn, sbInClosed, closing, muReaders, closedDone, wtArmed,
                   wtC, credit, lpc, lFrame, closeTimedOut, out,
                   sendVars, closeVars, histVars, recvVars, dialVars>>

\* lines 112-115
LoopCloseTimedOut ==
    /\ lpc = "select"
    /\ closeTimedOut
    /\ lpc' = "defer"
    /\ UNCHANGED <<sbVars, lFrame, sendRST, gpc, closeTimedOut, out,
                   sendVars, closeVars, histVars, recvVars, dialVars>>

\* line 90 taken without the window's handle being ready
LoopWindowAvailable_NoWindow ==
    /\ lpc = "window"
    /\ lpc' = "write"
    /\ UNCHANGED <<sbVars, lFrame, sendRST, gpc, closeTimedOut, out,
                   sendVars, closeVars, histVars, recvVars, dialVars>>

\* lines 90-91: the window's handle is ready
LoopWindowAvailable ==
    /\ lpc = "window"
    /\ windowAvailable(credit)
    /\ lpc' = "write"
    /\ UNCHANGED <<sbVars, lFrame, sendRST, gpc, closeTimedOut, out,
                   sendVars, closeVars, histVars, recvVars, dialVars>>

\* lines 93-95: close requested before window available
LoopCloseWhileWaiting ==
    /\ lpc = "window"
    /\ closeRequested # <<>>
    /\ sendRST' = Head(closeRequested)
    /\ closeRequested' = Tail(closeRequested)
    /\ gpc' = signalClose
    /\ lpc' = "windowClosing"
    /\ UNCHANGED <<windowSize, sbIn, sbInClosed, closing, muReaders, closedDone, wtArmed,
                   wtC, credit, lFrame, closeTimedOut, out,
                   sendVars, closeVars, histVars, recvVars, dialVars>>

\* lines 97-98 without the wait for the window
LoopWindowAvailableClosing_NoWindow ==
    /\ lpc = "windowClosing"
    /\ lpc' = "writeClosing"
    /\ UNCHANGED <<sbVars, lFrame, sendRST, gpc, closeTimedOut, out,
                   sendVars, closeVars, histVars, recvVars, dialVars>>

\* lines 97-98
LoopWindowAvailableClosing ==
    /\ lpc = "windowClosing"
    /\ windowAvailable(credit)
    /\ lpc' = "writeClosing"
    /\ UNCHANGED <<sbVars, lFrame, sendRST, gpc, closeTimedOut, out,
                   sendVars, closeVars, histVars, recvVars, dialVars>>

\* lines 100-102
LoopTimedOutWaiting ==
    /\ lpc = "windowClosing"
    /\ closeTimedOut
    /\ lpc' = "defer"
    /\ UNCHANGED <<sbVars, lFrame, sendRST, gpc, closeTimedOut, out,
                   sendVars, closeVars, histVars, recvVars, dialVars>>

\* write (lines 52-59), case out <- b
writeOut(b) ==
    /\ Len(out) < OutCap
    /\ out' = Append(out, b)
    /\ wrote' = Append(wrote, b)

\* write (lines 52-59), case <-closeTimedOut: the frame is dropped
writeDropped ==
    /\ closeTimedOut
    /\ UNCHANGED <<windowSize, out, wrote, dialVars>>

\* write(append(frame, buf.defaultHeader...)), then line 106: the frame
\* came from an open channel, so the loop goes on
writeFrame ==
    /\ \/ writeOut(dataFrame(lFrame)) /\ UNCHANGED dropped
       \/ writeDropped /\ dropped' = dropped \cup {lFrame}
    /\ lFrame' = <<>>
    /\ lpc' = "select"
    /\ UNCHANGED <<sbVars, sendRST, gpc, closeTimedOut, sendVars, closeVars,
                   accepted, ackTotal, callsLeft, nSends, panicked, recvVars, dialVars>>

\* line 92
LoopWrite ==
    /\ lpc = "write"
    /\ writeFrame

\* line 99
LoopWriteClosing ==
    /\ lpc = "writeClosing"
    /\ writeFrame

\* the deferred function (lines 62-68) when no RST is to be sent
LoopDeferDone ==
    /\ lpc = "defer"
    /\ ~sendRST
    /\ closedDone' = TRUE
    /\ lpc' = "done"
    /\ UNCHANGED <<windowSize, sbIn, sbInClosed, closeRequested, closing, muReaders,
                   wtArmed, wtC, credit, lFrame, sendRST, gpc, closeTimedOut,
                   out, sendVars, closeVars, histVars, recvVars, dialVars>>

\* a deferred function that sends the RST whatever close asked for
LoopDeferRST_Unasked ==
    /\ lpc = "defer"
    /\ \/ writeOut(withFrameType(defaultHeader, frameTypeRST))
       \/ writeDropped
    /\ closedDone' = TRUE
    /\ lpc' = "done"
    /\ UNCHANGED <<windowSize, sbIn, sbInClosed, closeRequested, closing, muReaders,
                   wtArmed, wtC, credit, lFrame, sendRST, gpc, closeTimedOut,
                   sendVars, closeVars, accepted, ackTotal, callsLeft, nSends, panicked, dropped, recvVars, dialVars>>

\* the deferred function (lines 62-68) sending the RST
LoopDeferRST ==
    /\ lpc = "defer"
    /\ sendRST
    /\ \/ writeOut(withFrameType(defaultHeader, frameTypeRST))
       \/ writeDropped
    /\ closedDone' = TRUE
    /\ lpc' = "done"
    /\ UNCHANGED <<windowSize, sbIn, sbInClosed, closeRequested, closing, muReaders,
                   wtArmed, wtC, credit, lFrame, sendRST, gpc, closeTimedOut,
                   sendVars, closeVars, accepted, ackTotal, callsLeft, nSends, panicked, dropped, recvVars, dialVars>>

SendLoop ==
    \/ LoopRecvFrame
    \/ LoopRecvClosed
    \/ LoopCloseRequested
    \/ LoopCloseTimedOut
    \/ LoopWindowAvailable
    \/ LoopCloseWhileWaiting
    \/ LoopWindowAvailableClosing
    \/ LoopTimedOutWaiting
    \/ LoopWrite
    \/ LoopWriteClosing
    \/ LoopDeferDone
    \/ LoopDeferRST

(***************************************************************************)
(* The goroutine signalClose starts (lines 73-80).                         *)
(***************************************************************************)
\* line 74: buf.muClosing.Lock() is called; from now on RLock waits
CloserLockCall ==
    /\ gpc = "spawned"
    /\ gpc' = "lock"
    /\ UNCHANGED <<sbVars, lpc, lFrame, sendRST, closeTimedOut, out,
                   sendVars, closeVars, histVars, recvVars, dialVars>>

\* a lock that does not wait for the readers
CanLock_IgnoresReaders == TRUE

\* RWMutex.Lock is granted when no reader holds the lock
CanLock == muReaders = 0

\* lines 74-77: under the lock, set closing and seal the in-queue
CloserSeal ==
    /\ gpc = "lock"
    /\ CanLock
    /\ closing' = TRUE
    /\ sbInClosed' = TRUE
    /\ gpc' = "sleep"
    /\ UNCHANGED <<windowSize, sbIn, closeRequested, muReaders, closedDone, wtArmed, wtC,
                   credit, lpc, lFrame, sendRST, closeTimedOut, out,
                   sendVars, closeVars, histVars, recvVars, dialVars>>

\* lines 78-79: closeTimeout has elapsed
CloserTimeout ==
    /\ gpc = "sleep"
    /\ closeTimedOut' = TRUE
    /\ gpc' = "done"
    /\ UNCHANGED <<sbVars, lpc, lFrame, sendRST, out,
                   sendVars, closeVars, histVars, recvVars, dialVars>>

CloserGoroutine == CloserLockCall \/ CloserSeal \/ CloserTimeout

(***************************************************************************)
(* sendBuffer.close, called once by each goroutine of Closers.             *)
(***************************************************************************)
\* lines 155-160: the non-blocking send on closeRequested
CloseCall(c, rst) ==
    /\ cpc[c] = "idle"
    /\ callsLeft > 0
    /\ callsLeft' = callsLeft - 1
    /\ closeArgs' = closeArgs \cup {rst}
    /\ closeRequested' = IF Len(closeRequested) < 1
                           THEN Append(closeRequested, rst)
                           ELSE closeRequested
    /\ cpc' = [cpc EXCEPT ![c] = "stop"]
    /\ UNCHANGED <<windowSize, sbIn, sbInClosed, closing, muReaders, closedDone, wtArmed,
                   wtC, credit, loopVars, sendVars, accepted, wrote, ackTotal,
                   nSends, panicked, dropped, recvVars, dialVars>>

\* line 161: buf.writeTimer.Stop()
CloseTimerStop(c) ==
    /\ cpc[c] = "stop"
    /\ IF wtArmed # "no"
         THEN wtArmed' = "no" /\ cpc' = [cpc EXCEPT ![c] = "wait"]
         ELSE wtArmed' = wtArmed /\ cpc' = [cpc EXCEPT ![c] = "drain"]
    /\ UNCHANGED <<windowSize, sbIn, sbInClosed, closeRequested, closing, muReaders,
                   closedDone, wtC, credit, loopVars, sendVars, closeArgs, histVars, recvVars, dialVars>>

\* line 162: <-buf.writeTimer.C
CloseTimerDrain(c) ==
    /\ cpc[c] = "drain"
    /\ wtC
    /\ wtC' = FALSE
    /\ cpc' = [cpc EXCEPT ![c] = "wait"]
    /\ UNCHANGED <<windowSize, sbIn, sbInClosed, closeRequested, closing, muReaders,
                   closedDone, wtArmed, credit, loopVars, sendVars, closeArgs,
                   histVars, recvVars, dialVars>>

\* line 164: buf.closed.Wait() returns, and so does close
CloseReturn(c) ==
    /\ cpc[c] = "wait"
    /\ closedDone
    /\ cpc' = [cpc EXCEPT ![c] = "returned"]
    /\ UNCHANGED <<sbVars, loopVars, sendVars, closeArgs, histVars, recvVars, dialVars>>

Close ==
    \/ \E c \in Closers, rst \in BOOLEAN : CloseCall(c, rst)
    \/ \E c \in Closers : CloseTimerStop(c)
    \/ \E c \in Closers : CloseTimerDrain(c)
    \/ \E c \in Closers : CloseReturn(c)

(***************************************************************************)
(* The session, seen from the send buffer: its writer takes frames off     *)
(* out, and its reader adds the credit of each ACK of the peer.            *)
(***************************************************************************)
WriterTake ==
    /\ out # <<>>
    /\ out' = Tail(out)
    /\ UNCHANGED <<sbVars, lpc, lFrame, sendRST, gpc, closeTimedOut,
                   sendVars, closeVars, histVars, recvVars, dialVars>>

PeerAck(n) ==
    /\ ackTotal + n <= MaxAck
    /\ credit' = windowAdd(credit, n)
    /\ ackTotal' = ackTotal + n
    /\ UNCHANGED <<windowSize, sbIn, sbInClosed, closeRequested, closing, muReaders,
                   closedDone, wtArmed, wtC, loopVars, sendVars, closeVars,
                   accepted, wrote, callsLeft, nSends, panicked, dropped, recvVars, dialVars>>

Session == WriterTake \/ \E n \in 1..MaxAck : PeerAck(n)

(***************************************************************************)
(* receiveBuffer                                                           *)
(***************************************************************************)
\* newReceiveBuffer, line 200: int(math.Ceil(float64(windowSize) / 10))
ackInterval == (windowSize + 9) \div 10

\* onFrame that strips one byte too few of the header
onFrameCurrent_ShortStrip(frame) == SubSeq(frame, dataHeaderSize, Len(frame))

\* onFrame (lines 299-307): buf.current = frame[dataHeaderSize:]
onFrameCurrent(frame) == SubSeq(frame, dataHeaderSize + 1, Len(frame))

\* read is called (line 230)
ReadCall(n, dl) ==
    /\ rdpc = "idle"
    /\ rdpc' = "copy"
    /\ rdB' = n
    /\ rdDl' = dl
    /\ rdGot' = <<>>
    /\ rdErr' = "nil"
    /\ UNCHANGED <<sbVars, loopVars, sendVars, closeVars, histVars,
                   rbVars, rdrVars, delivered, recvHist, dialVars>>

\* <-buf.in reports the end (!open && frame == nil) ignoring queued frames
AtEnd_IgnoresQueued == rbClosed

\* lines 251-253, 284-287: <-buf.in on the closed and drained in-queue
AtEnd == rbClosed /\ rbIn = <<>>

\* One turn of read's loop (lines 239-276): copy from buf.current, then the
\* select with a default case on buf.in.
ReadCopy ==
    /\ rdpc = "copy"
    /\ LET n == Min(rdB, Len(rbCurrent))
           got == rdGot \o SubSeq(rbCurrent, 1, n)
           current == SubSeq(rbCurrent, n + 1, Len(rbCurrent))
       IN  /\ rdGot' = got
           /\ framesRead' = IF n > 0 /\ current = <<>>
                               THEN framesRead + 1 ELSE framesRead
           /\ IF n = rdB
                THEN \* line 242: nothing more to copy
                     /\ rdpc' = "defer"
                     /\ rbCurrent' = current
                     /\ UNCHANGED <<rdB, rdErr, rbIn, unacked>>
                ELSE /\ rdB' = rdB - n
                     /\ IF ~AtEnd /\ rbIn # <<>>
                          THEN \* lines 251-259: the next frame
                               /\ rbCurrent' = onFrameCurrent(Head(rbIn))
                               /\ unacked' = unacked + 1
                               /\ rbIn' = Tail(rbIn)
                               /\ rdpc' = "copy"
                               /\ UNCHANGED rdErr
                          ELSE /\ rbCurrent' = current
                               /\ UNCHANGED <<rbIn, unacked>>
                               /\ IF AtEnd
                                    THEN \* lines 253-256: we've hit the end
                                         rdErr' = "EOF" /\ rdpc' = "defer"
                                    ELSE IF Len(got) > 0
                                      THEN \* lines 262-264
                                           rdpc' = "defer" /\ UNCHANGED rdErr
                                      ELSE IF rdDl = "past"
                                        THEN \* lines 273-275
                                             rdpc' = "defer" /\ UNCHANGED rdErr
                                        ELSE rdpc' = "wait" /\ UNCHANGED rdErr
    /\ UNCHANGED <<sbVars, loopVars, sendVars, closeVars, histVars,
                   rbClosed, ackCh, rdrVars, rdDl, delivered, submitted,
                   ackEmitted, dialVars>>

\* lines 279-283: the read deadline passes (largeDeadline never does)
ReadTimeout ==
    /\ rdpc = "wait"
    /\ rdDl = "future"
    /\ rdErr' = "ErrTimeout"
    /\ rdpc' = "defer"
    /\ UNCHANGED <<sbVars, loopVars, sendVars, closeVars, histVars,
                   rbVars, rdrVars, rdB, rdDl, rdGot, delivered, recvHist, dialVars>>

\* lines 284-293: a frame arrives while read waits
ReadWaitFrame ==
    /\ rdpc = "wait"
    /\ ~AtEnd
    /\ rbIn # <<>>
    /\ rbCurrent' = onFrameCurrent(Head(rbIn))
    /\ unacked' = unacked + 1
    /\ rbIn' = Tail(rbIn)
    /\ rdpc' = "copy"
    /\ UNCHANGED <<sbVars, loopVars, sendVars, closeVars, histVars,
                   rbClosed, ackCh, rdrVars, rdB, rdDl, rdGot, rdErr, delivered,
                   recvHist, dialVars>>

\* lines 284-290: the in-queue is closed while read waits
ReadWaitEOF ==
    /\ rdpc = "wait"
    /\ AtEnd
    /\ rdErr' = "EOF"
    /\ rdpc' = "defer"
    /\ UNCHANGED <<sbVars, loopVars, sendVars, closeVars, histVars,
                   rbVars, rdrVars, rdB, rdDl, rdGot, delivered, recvHist, dialVars>>

\* a deferred function that forgets buf.unacked = 0
ReadReturn_NoReset ==
    /\ rdpc = "defer"
    /\ IF unacked >= ackInterval
         THEN /\ Len(ackCh) < AckCap
              /\ ackCh' = Append(ackCh, ackWithFrames(defaultHeader, toInt16(unacked)))
              /\ ackEmitted' = ackEmitted + toInt16(unacked)
              /\ UNCHANGED unacked
         ELSE UNCHANGED <<ackCh, unacked, ackEmitted>>
    /\ delivered' = delivered \o rdGot
    /\ rdpc' = "idle"
    /\ rdB' = 0
    /\ rdDl' = "zero"
    /\ rdGot' = <<>>
    /\ rdErr' = "nil"
    /\ UNCHANGED <<sbVars, loopVars, sendVars, closeVars, histVars,
                   rbIn, rbClosed, rbCurrent, rdrVars, submitted, framesRead,
                   dialVars>>

\* a deferred function that pushes an ACK at every return
ReadReturn_AlwaysAcks ==
    /\ rdpc = "defer"
    /\ Len(ackCh) < AckCap
    /\ ackCh' = Append(ackCh, ackWithFrames(defaultHeader, toInt16(unacked)))
    /\ ackEmitted' = ackEmitted + toInt16(unacked)
    /\ unacked' = 0
    /\ delivered' = delivered \o rdGot
    /\ rdpc' = "idle"
    /\ rdB' = 0
    /\ rdDl' = "zero"
    /\ rdGot' = <<>>
    /\ rdErr' = "nil"
    /\ UNCHANGED <<sbVars, loopVars, sendVars, closeVars, histVars,
                   rbIn, rbClosed, rbCurrent, rdrVars, submitted, framesRead,
                   dialVars>>

\* the deferred function (lines 231-236), then read returns rdGot and rdErr
ReadReturn ==
    /\ rdpc = "defer"
    /\ IF unacked >= ackInterval
         THEN /\ Len(ackCh) < AckCap
              /\ ackCh' = Append(ackCh, ackWithFrames(defaultHeader, toInt16(unacked)))
              /\ ackEmitted' = ackEmitted + toInt16(unacked)
              /\ unacked' = 0
         ELSE UNCHANGED <<ackCh, unacked, ackEmitted>>
    /\ delivered' = delivered \o rdGot
    /\ rdpc' = "idle"
    /\ rdB' = 0
    /\ rdDl' = "zero"
    /\ rdGot' = <<>>
    /\ rdErr' = "nil"
    /\ UNCHANGED <<sbVars, loopVars, sendVars, closeVars, histVars,
                   rbIn, rbClosed, rbCurrent, rdrVars, submitted, framesRead,
                   dialVars>>

Read ==
    \/ \E n \in 0..MaxDest, dl \in Deadlines : ReadCall(n, dl)
    \/ ReadCopy
    \/ ReadTimeout
    \/ ReadWaitFrame
    \/ ReadWaitEOF
    \/ ReadReturn

(***************************************************************************)
(* The session between the two buffers: the writer takes a frame off out,  *)
(* the peer's reader dispatches it, and the ACK frames the receive buffer  *)
(* pushes add their count to the sender's window.                          *)
(***************************************************************************)
\* a data frame reaches receiveBuffer.submit (lines 213-219)
SessionData ==
    /\ rdrpc = "idle"
    /\ out # <<>>
    /\ IsData(Head(out))
    /\ out' = Tail(out)
    /\ IF rbClosed
         THEN UNCHANGED rdrVars
         ELSE rdrpc' = "submit" /\ rdrFrame' = receivedFrame(Head(out))
    /\ UNCHANGED <<sbVars, lpc, lFrame, sendRST, gpc, closeTimedOut,
                   sendVars, closeVars, histVars, rbVars, readVars, recvHist,
                   dialVars>>

\* submit, lines 220-221: buf.in <- frame
SubmitEnqueue ==
    /\ rdrpc = "submit"
    /\ Len(rbIn) < windowSize
    /\ rbIn' = Append(rbIn, rdrFrame)
    /\ rdrpc' = "idle"
    /\ rdrFrame' = <<>>
    /\ submitted' = submitted \o onFrameCurrent(rdrFrame)
    /\ UNCHANGED <<sbVars, loopVars, sendVars, closeVars, histVars,
                   rbClosed, rbCurrent, unacked, ackCh, readVars, ackEmitted,
                   framesRead, dialVars>>

\* receiveBuffer.close (lines 309-316)
rbClose ==
    /\ rbClosed' = TRUE
    /\ UNCHANGED <<windowSize, rbIn, rbCurrent, unacked, ackCh, recvHist, dialVars>>

\* an RST frame closes the stream's receive buffer
SessionRST ==
    /\ rdrpc = "idle"
    /\ out # <<>>
    /\ IsRST(Head(out))
    /\ out' = Tail(out)
    /\ rbClose
    /\ UNCHANGED <<sbVars, lpc, lFrame, sendRST, gpc, closeTimedOut,
                   sendVars, closeVars, histVars, rdrVars, readVars, dialVars>>

\* an ACK frame reaches the sender: window.add(count)
SessionAck ==
    /\ ackCh # <<>>
    /\ credit' = windowAdd(credit, ackCount(Head(ackCh)))
    /\ ackTotal' = ackTotal + ackCount(Head(ackCh))
    /\ ackCh' = Tail(ackCh)
    /\ UNCHANGED <<windowSize, sbIn, sbInClosed, closeRequested, closing, muReaders,
                   closedDone, wtArmed, wtC, loopVars, sendVars, closeVars,
                   accepted, wrote, callsLeft, nSends, panicked, dropped,
                   rbIn, rbClosed, rbCurrent, unacked, rdrVars, readVars,
                   recvHist, dialVars>>

Transport == SessionData \/ SubmitEnqueue \/ SessionRST \/ SessionAck

(***************************************************************************)
(* A receive buffer on its own: the peer sends data frames, and the stream *)
(* or an RST closes the buffer at any time, more than once.                *)
(***************************************************************************)
\* the session's reader calls submit with the next data frame (lines 213-219)
PeerData ==
    /\ rdrpc = "idle"
    /\ nSends < MaxFrames
    /\ nSends' = nSends + 1
    /\ IF rbClosed
         THEN UNCHANGED rdrVars
         ELSE /\ rdrpc' = "submit"
              /\ rdrFrame' = receivedFrame(dataFrame(Payload(nSends + 1)))
    /\ UNCHANGED <<sbVars, loopVars, sendVars, closeVars, accepted, wrote,
                   ackTotal, callsLeft, panicked, dropped, rbVars, readVars,
                   recvHist, dialVars>>

\* receiveBuffer.close (lines 309-316); buf.mx.Lock waits for a submit that
\* holds the read lock
RecvClose ==
    /\ rdrpc # "submit"
    /\ rbClose
    /\ UNCHANGED <<sbVars, loopVars, sendVars, closeVars, histVars, rdrVars,
                   readVars>>


(***************************************************************************)
(* The dialer.                                                             *)
(***************************************************************************)
\* the largest stream id, 2^24 - 1
maxID == 16777215
NoSession == 0

\* StreamDialer (lines 41-53)
StreamDialer(maxStreamsPerConn) ==
    IF maxStreamsPerConn <= 0 \/ maxStreamsPerConn > maxID
      THEN maxID
      ELSE maxStreamsPerConn

InitDial ==
    /\ maxStreamPerConn \in {StreamDialer(n) : n \in 0..MaxStreamsPerConn}
    /\ dCurrent = NoSession
    /\ dId = 0
    /\ dMx = FALSE
    /\ dpc = [p \in Dialers |-> "idle"]
    /\ dLocal = [p \in Dialers |-> [current |-> NoSession, id |-> 0]]
    /\ nSessions = 0
    /\ closedSessions = {}
    /\ staleClosed = {}
    /\ minted = <<>>
    /\ handed = <<>>

\* lines 70-74: the id counter after the exhaustion check
idAfterCheck == IF dId > maxStreamPerConn THEN 0 ELSE dId
idsExhausted == dId > maxStreamPerConn

\* lines 84-86: take the id, step the counter, unlock
takeId(p, current, id) ==
    /\ dId' = id + 1    \* below 2^32: id <= maxStreamPerConn <= maxID
    /\ dMx' = FALSE
    /\ dLocal' = [dLocal EXCEPT ![p] = [current |-> current, id |-> id]]
    /\ minted' = Append(minted, <<current, id>>)
    /\ dpc' = [dpc EXCEPT ![p] = "getStream"]

\* dial, lines 67-86 when no session is started; else up to startSession
DialLock(p) ==
    /\ dpc[p] = "idle"
    /\ dialsLeft > 0
    /\ ~dMx
    /\ dialsLeft' = dialsLeft - 1
    /\ IF dCurrent = NoSession \/ idsExhausted
         THEN /\ dMx' = TRUE
              /\ dId' = idAfterCheck
              /\ dpc' = [dpc EXCEPT ![p] = "startSession"]
              /\ UNCHANGED <<dLocal, minted>>
         ELSE takeId(p, dCurrent, idAfterCheck)
    /\ UNCHANGED <<streamVars, maxStreamPerConn, dCurrent, nSessions,
                   closedSessions, staleClosed, handed>>

\* startSession, lines 93-97: the connector fails
DialConnectFails(p) ==
    /\ dpc[p] = "startSession"
    /\ dMx' = FALSE
    /\ dpc' = [dpc EXCEPT ![p] = "idle"]
    /\ UNCHANGED <<streamVars, maxStreamPerConn, dCurrent, dId, dLocal,
                   nSessions, closedSessions, staleClosed, dialsLeft, minted, handed>>

\* startSession, lines 100-130, and dial, lines 80-82: the secret, an IV,
\* the init message or a cipher fails; dial returns the error
DialHandshakeFails(p) ==
    /\ dpc[p] = "startSession"
    /\ dpc' = [dpc EXCEPT ![p] = "idle"]
    /\ UNCHANGED <<streamVars, maxStreamPerConn, dCurrent, dId, dMx, dLocal,
                   nSessions, closedSessions, staleClosed, dialsLeft, minted, handed>>

\* startSession, lines 132-133, then dial, lines 84-86
DialSessionStarted(p) ==
    /\ dpc[p] = "startSession"
    /\ nSessions' = nSessions + 1
    /\ dCurrent' = nSessions + 1
    /\ takeId(p, nSessions + 1, dId)
    /\ UNCHANGED <<streamVars, maxStreamPerConn, closedSessions, staleClosed, dialsLeft,
                   handed>>

\* line 88: current.getOrCreateStream(id)
DialGetStream(p) ==
    /\ dpc[p] = "getStream"
    /\ handed' = Append(handed, <<dLocal[p].current, dLocal[p].id>>)
    /\ dpc' = [dpc EXCEPT ![p] = "idle"]
    /\ UNCHANGED <<streamVars, maxStreamPerConn, dCurrent, dId, dMx, dLocal,
                   nSessions, closedSessions, staleClosed, dialsLeft, minted>>

\* a callback that leaves d.current alone
SessionClosed_KeepsCurrent(sess) ==
    /\ sess \in 1..nSessions
    /\ sess \notin closedSessions
    /\ ~dMx
    /\ closedSessions' = closedSessions \cup {sess}
    /\ staleClosed' = IF dCurrent = sess THEN staleClosed ELSE staleClosed \cup {sess}
    /\ UNCHANGED <<streamVars, maxStreamPerConn, dCurrent, dId, dMx, dpc, dLocal,
                   nSessions, dialsLeft, minted, handed>>

\* sessionClosed (lines 136-143), called by a session that closes
SessionClosed(sess) ==
    /\ sess \in 1..nSessions
    /\ sess \notin closedSessions
    /\ ~dMx
    /\ closedSessions' = closedSessions \cup {sess}
    /\ staleClosed' = IF dCurrent = sess THEN staleClosed ELSE staleClosed \cup {sess}
    /\ dCurrent' = IF dCurrent = sess THEN NoSession ELSE dCurrent
    /\ UNCHANGED <<streamVars, maxStreamPerConn, dId, dMx, dpc, dLocal,
                   nSessions, dialsLeft, minted, handed>>

Dial ==
    \/ \E p \in Dialers : DialLock(p)
    \/ \E p \in Dialers : DialConnectFails(p)
    \/ \E p \in Dialers : DialHandshakeFails(p)
    \/ \E p \in Dialers : DialSessionStarted(p)
    \/ \E p \in Dialers : DialGetStream(p)
    \/ \E sess \in 1..MaxDials : SessionClosed(sess)

(***************************************************************************)
(* Specifications.                                                         *)
(***************************************************************************)
\* a send buffer, its callers, and a session that takes frames and adds credit
Init ==
    /\ InitSend /\ InitRecv /\ InitDial
    /\ windowSize = SendWindow
    /\ callsLeft = MaxCalls
    /\ dialsLeft = 0 /\ maxStreamPerConn = maxID    \* no dialer at work

Next == Send \/ WriteTimerFire \/ SendLoop \/ CloserGoroutine \/ Close \/ Session

Spec == Init /\ [][Next]_vars

\* What the Go scheduler and the clock guarantee: a goroutine that can take
\* a step takes one, an armed timer expires, and the session's writer keeps
\* taking frames.  Nothing makes a caller call send or close, or the peer
\* send an ACK.
SenderSteps ==
    \/ SendRLock \/ SendEnqueue \/ SendTimerStop \/ SendTimerDrain
    \/ SendTimerReset \/ SendSelectEnqueue \/ SendSelectTimeout \/ SendReturn

CloserSteps(c) == CloseTimerStop(c) \/ CloseTimerDrain(c) \/ CloseReturn(c)

Fairness ==
    /\ WF_vars(SenderSteps)
    /\ WF_vars(WriteTimerFire)
    /\ WF_vars(SendLoop)
    /\ WF_vars(CloserGoroutine)
    /\ \A c \in Closers : WF_vars(CloserSteps(c))
    /\ WF_vars(WriterTake)

InitFair ==
    /\ InitSend /\ InitRecv /\ InitDial
    /\ windowSize = SendWindow
    /\ callsLeft = FairCalls
    /\ dialsLeft = 0 /\ maxStreamPerConn = maxID    \* no dialer at work

FairSpec == InitFair /\ [][Next]_vars /\ Fairness

\* a whole stream: the send buffer, the session, the peer's receive buffer
InitStream ==
    /\ InitSend /\ InitRecv /\ InitDial
    /\ windowSize = StreamWindow
    /\ callsLeft = StreamCalls
    /\ dialsLeft = 0 /\ maxStreamPerConn = maxID    \* no dialer at work

NextStream ==
    \/ Send \/ WriteTimerFire \/ SendLoop \/ CloserGoroutine \/ Close
    \/ Transport \/ Read

SpecStream == InitStream /\ [][NextStream]_vars

\* a receive buffer on its own
InitReceive ==
    /\ InitSend /\ InitRecv /\ InitDial
    /\ windowSize = RecvWindow
    /\ callsLeft = 0
    /\ dialsLeft = 0 /\ maxStreamPerConn = maxID    \* no dialer at work

NextReceive == PeerData \/ SubmitEnqueue \/ RecvClose \/ Read \/ SessionAck

SpecRecv == InitReceive /\ [][NextReceive]_vars

\* a dialer, the goroutines calling dial, and sessions that close
InitDialer ==
    /\ InitSend /\ InitRecv /\ InitDial
    /\ windowSize = SendWindow
    /\ callsLeft = 0
    /\ dialsLeft = MaxDials

SpecDial == InitDialer /\ [][Dial]_vars

(***************************************************************************)
(* Properties.                                                             *)
(***************************************************************************)
RECURSIVE Flatten(_)
Flatten(seqs) == IF seqs = <<>> THEN <<>> ELSE Head(seqs) \o Flatten(Tail(seqs))

IsPrefix(a, b) == Len(a) <= Len(b) /\ SubSeq(b, 1, Len(a)) = a

NotDropped(p) == p \notin dropped
IsDataFrame(f) == IsData(f)
IsRSTFrame(f) == IsRST(f)

\* the accepted payloads that write() did not drop after the close timeout
Surviving == SelectSeq(accepted, NotDropped)
\* the data frames and the RST frames put on the writer channel so far
DataWritten == SelectSeq(wrote, IsDataFrame)
RSTWritten == SelectSeq(wrote, IsRSTFrame)

\* C1: the bytes the reads of a stream have returned are a prefix of the
\* concatenation of the payloads send accepted, in the order it accepted
\* them, less the payloads dropped after the close timeout.
C1_OrderedDelivery == IsPrefix(delivered, Flatten(Surviving))

\* C1 witness: a payload was dropped after the close timeout, a payload
\* accepted after it was forwarded, and the reads have returned every byte
\* that was accepted and kept.
C1_Witness ==
    /\ \E i, j \in 1..Len(accepted) :
          i < j /\ accepted[i] \in dropped /\ accepted[j] \notin dropped
    /\ delivered # <<>>
    /\ delivered = Flatten(Surviving)

\* C2: the data frames forwarded to the writer channel never exceed
\* windowSize plus the credit added by peer ACKs.
C2_WindowBound == Len(DataWritten) <= windowSize + ackTotal

\* C2 witness: close was requested while the loop waited for credit, an ACK
\* then added credit, and the loop is at line 99 with the frame that takes
\* the window to its bound.
C2_Witness ==
    /\ lpc = "writeClosing"
    /\ ackTotal > 0
    /\ Len(DataWritten) + 1 = windowSize + ackTotal

\* C3: at most one RST frame is put on the writer channel, only if some
\* close call asked for it, and no frame follows it.
C3_RSTLast ==
    /\ Len(RSTWritten) <= 1
    /\ RSTWritten # <<>> => TRUE \in closeArgs /\ IsRST(wrote[Len(wrote)])

\* C3 witness: data frames were forwarded and the RST was emitted after them.
C3_Witness ==
    /\ Len(DataWritten) >= 2
    /\ Len(RSTWritten) = 1

\* the frames the send loop owes for what send accepted
FramesOf(payloads) == [i \in 1..Len(payloads) |-> dataFrame(payloads[i])]
\* the send loop waits for credit the peer has not given
WaitsForCredit == lpc \in {"window", "windowClosing"} /\ ~windowAvailable(credit)
\* a send call with a deadline is between its check of closing and its return
DeadlineSendInFlight == spc \in {"stop", "drain", "reset", "select"}

\* when the send loop has ended before the close timeout, and every close
\* asked for the RST, it forwarded every accepted payload in order and then
\* one RST
NothingLost ==
    (lpc = "done" /\ ~closeTimedOut /\ closeArgs = {TRUE})
        => wrote = Append(FramesOf(accepted), withFrameType(defaultHeader, frameTypeRST))

\* C4: graceful close loses nothing: after close(true), unless credit runs
\* out or the close timeout fires, the send loop forwards every accepted
\* frame in order, then one RST, and terminates.
C4_GracefulClose ==
    /\ []NothingLost
    /\ [](closeArgs = {TRUE} =>
            <>(lpc = "done" \/ closeTimedOut \/ WaitsForCredit \/ closeArgs # {TRUE}))

\* C5: once close has been requested, the send loop terminates, whatever the
\* peer does and even with a send without deadline blocked on the in-queue.
C5_CloseTerminates ==
    [](closeArgs # {} => <>(lpc = "done" \/ DeadlineSendInFlight))

\* C6: every close call returns once the send loop has terminated.
C6_CloseReturns ==
    \A c \in Closers : [](cpc[c] # "idle" /\ closedDone => <>(cpc[c] = "returned"))

\* C7: nothing is enqueued on the sealed in-queue, and a send that starts
\* when closing is set returns 0 and EPIPE without enqueueing.
C7_NoSendAfterSeal ==
    /\ ~panicked
    /\ sbInClosed => spc \in {"idle", "rlock", "ret"}
    /\ sbInClosed /\ spc = "ret" => sRet = [n |-> 0, err |-> "EPIPE"]
    /\ sStartClosing => spc \in {"rlock", "ret"}
    /\ sStartClosing /\ spc = "ret" => sRet = [n |-> 0, err |-> "EPIPE"]

\* C7 witness: a send that started after closing was set is returning EPIPE,
\* and an earlier send was admitted.
C7_Witness ==
    /\ sStartClosing
    /\ spc = "ret"
    /\ sRet.err = "EPIPE"
    /\ accepted # <<>>

\* C8: a send call with a deadline returns.
C8_SendReturns == [](DeadlineSendInFlight => <>(spc = "ret"))

\* C9 as claimed: without ACK credit no more than windowSize writes return.
C9_Original == ackTotal = 0 => Len(accepted) <= windowSize

\* C9 as amended: without ACK credit no more than windowSize frames are
\* forwarded and no more than 2 * windowSize + 1 writes return.
C9_Saturation ==
    ackTotal = 0 =>
        /\ Len(DataWritten) <= windowSize
        /\ Len(accepted) <= 2 * windowSize + 1

\* C9 witness: the write after those was blocked with no credit, and has
\* returned after an ACK.
C9_Witness ==
    /\ ackTotal > 0
    /\ Len(accepted) = 2 * windowSize + 2

\* C10: on one session the dialer takes stream ids in strictly increasing
\* order, and never passes the same id twice to getOrCreateStream.
C10_UniqueIds ==
    /\ \A i, j \in 1..Len(minted) :
          i < j /\ minted[i][1] = minted[j][1] => minted[i][2] < minted[j][2]
    /\ \A i, j \in 1..Len(handed) : i < j => handed[i] # handed[j]

\* the ids dial took on session sess, in the order it took them
IdsOn(sess) ==
    LET OnSess(e) == e[1] = sess
        es == SelectSeq(minted, OnSess)
    IN  [i \in 1..Len(es) |-> es[i][2]]

\* C11: a dialer with maxStreamsPerConn = N puts at most N streams on one
\* session.
C11_MaxStreams ==
    \A sess \in 1..nSessions : Len(IdsOn(sess)) <= maxStreamPerConn

\* C12: the first stream of every session dial starts has id 0, and the
\* later streams on it have ids 1, 2, ... in dial order.
C12_IdsFromZero ==
    \A sess \in 1..nSessions :
        \A i \in 1..Len(IdsOn(sess)) : IdsOn(sess)[i] = i - 1

\* C13: whenever no dial call is between its Lock and its Unlock, the dialer
\* mutex is released.
C13_MutexReleased ==
    (\A p \in Dialers : dpc[p] \in {"idle", "getStream"}) => ~dMx

\* C14: a dial that takes an id takes it on a session whose close callback
\* has not completed; a close callback clears the slot if it holds that
\* session and otherwise leaves it, and never touches the id counter.
C14_ClosedSessionUnused ==
    [][/\ Len(minted') > Len(minted)
            => minted'[Len(minted')][1] \notin closedSessions
       /\ closedSessions' # closedSessions
            => /\ dId' = dId
               /\ dCurrent' = IF dCurrent \in closedSessions'
                                 THEN NoSession ELSE dCurrent]_vars

\* C14 witness: a session closed while current, a session that was no longer
\* current closed too, and a later dial took an id on a new session.
C14_Witness ==
    /\ staleClosed # {}
    /\ closedSessions # staleClosed
    /\ dCurrent # NoSession
    /\ dCurrent \notin closedSessions
    /\ minted # <<>>
    /\ minted[Len(minted)][1] = dCurrent

\* C15: a call whose deadline is already past fails at once with ErrTimeout:
\* a read with a destination and no data (and no end of stream), a send on
\* a buffer that is not closing; a zero deadline never gives ErrTimeout.
C15_PastDeadline ==
    /\ (rdpc = "defer" /\ rdDl = "past" /\ rdB > 0 /\ rdGot = <<>> /\ rdErr # "EOF")
          => rdErr = "ErrTimeout"
    /\ (spc = "ret" /\ sArg.dl = "past" /\ sRet.err # "EPIPE")
          => sRet = [n |-> 0, err |-> "ErrTimeout"]
    /\ (rdpc = "defer" /\ rdDl = "zero") => rdErr # "ErrTimeout"
    /\ (spc = "ret" /\ sArg.dl = "zero") => sRet.err # "ErrTimeout"

\* C16: the ACK counts pushed so far never exceed the frames whose every
\* byte has been copied into a read destination.
C16_AckAfterDelivery == ackEmitted <= framesRead

\* C17: at every return from read the ACK counts pushed and the frames fully
\* read differ by at most ackInterval, and unacked is below ackInterval.
C17_AckConserved ==
    rdpc = "idle" =>
        /\ unacked < ackInterval
        /\ ackEmitted - framesRead <= ackInterval
        /\ framesRead - ackEmitted <= ackInterval

\* C17 witness: read has returned after a batched ACK of two frames, with a
\* third frame read and not yet acknowledged.
C17_Witness ==
    /\ rdpc = "idle"
    /\ ackInterval = 2
    /\ ackEmitted = 2
    /\ framesRead = 3
    /\ unacked = 1

\* the data bytes of the frames waiting on the in-queue
QueuedBytes == Flatten([i \in 1..Len(rbIn) |-> onFrameCurrent(rbIn[i])])

\* C18: the reads return the submitted bytes in order, whether or not the
\* buffer was closed meanwhile; read reports EOF only with nothing left to
\* deliver; from then on a read with a destination returns no byte and EOF;
\* a closed buffer stays closed.
C18_EOFAfterData ==
    /\ [](delivered \o rdGot \o rbCurrent \o QueuedBytes = submitted)
    /\ []((rdpc = "defer" /\ rdErr = "EOF")
            => (rbClosed /\ rbIn = <<>> /\ rbCurrent = <<>>))
    /\ [][/\ (rdpc = "copy" /\ rdpc' # "copy" /\ rdB > 0
                /\ rbClosed /\ rbIn = <<>> /\ rbCurrent = <<>>)
              => (rdpc' = "defer" /\ rdErr' = "EOF" /\ rdGot' = rdGot)
          /\ rbClosed => rbClosed']_vars

\* C18 witness: the buffer was closed, the reads have returned the bytes of
\* two or more frames, all that was submitted, and this read reports EOF.
C18_Witness ==
    /\ rdpc = "defer"
    /\ rdErr = "EOF"
    /\ framesRead >= 2
    /\ delivered \o rdGot = submitted

\* C19: a read with an empty destination takes no frame, copies nothing,
\* pushes no ACK, and returns 0 and no error.
C19_EmptyRead ==
    [][(rdpc \in {"copy", "defer"} /\ rdB = 0)
         => /\ unacked' = unacked
            /\ rbCurrent' = rbCurrent
            /\ framesRead' = framesRead
            /\ ackEmitted' = ackEmitted
            /\ Len(ackCh') <= Len(ackCh)
            /\ delivered' = delivered
            /\ rdpc' = "defer" => (rdErr' = "nil" /\ rdGot' = <<>>)]_vars

\* C19 witness: a read with an empty destination returns while a frame
\* waits on the in-queue and a frame read before is not yet acknowledged.
C19_Witness ==
    /\ rdpc = "defer"
    /\ rdB = 0
    /\ rbIn # <<>>
    /\ unacked = 1

\* C20: submit never finds the in-queue full.
C20_SubmitNeverBlocks == rdrpc = "submit" => Len(rbIn) < windowSize

\* C20 witness: ACKs have given the sender credit, and submit puts the frame
\* that fills the in-queue.
C20_Witness ==
    /\ rdrpc = "submit"
    /\ ackTotal > 0
    /\ Len(rbIn) = windowSize - 1

\* C21: once the send loop has taken a close request, its value decides
\* whether the RST is emitted: no later close call changes sendRST.
C21_FirstCloseDecides == [][gpc # "none" => sendRST' = sendRST]_vars

=============================================================================
